---------------------------- MODULE Spec2Model ----------------------------
(***************************************************************************)
(* Model of the stealer-log parser: archive entry classification and       *)
(* victim grouping (processing.py) and the batch orchestration with        *)
(* password retry and success/failure bucketing (main.py), and the batch   *)
(* entry point of m2.py with the dump of helpers.py.                       *)
(*                                                                         *)
(* An entry path is a sequence of tokens; every token stands for the       *)
(* substring it spells ("/" is the separator, ".txt" the extension, the    *)
(* keywords of FILENAMES_REGEX are tokens of their own).  The token set is *)
(* prefix-free, so comparing two paths token by token in the order of the  *)
(* tokens' spellings is Python's comparison of the spelled strings.        *)
(***************************************************************************)
EXTENDS Integers, Sequences, FiniteSets, TLC

VARIABLES
    namelist,      \* set of entry paths of the archive (root.namelist())
    files,         \* process_archive: the classified list
    index,         \* process_archive: index into files
    leak,          \* leak.systems_data
    pc,            \* position of process_archive
    stealer_name,  \* process_system_dir local
    system_data,   \* process_system_dir local
    current_dir,   \* process_system_dir local
    count,         \* process_system_dir local
    text,          \* process_system_dir local: option, the text read last
    groups,        \* history: the files consumed by each process_system_dir call
    discovered,    \* history: the non-empty IPs parsed in the current group, in order
    outcome,       \* history: how the last read of archive.read_file ended
    signatures,    \* history: the family names matched in each group, in order
    origin,        \* history: for every record of the leak, the group it was made for
    fs,            \* the archive files on disk: directory, name, archive
    passwords,     \* retry_failed_archives: the candidate passwords
    output_file,   \* whether an output file is configured
    output,        \* systems_data of the output file
    todo,          \* retry_failed_archives: the paths find_archives yields
    cur,           \* retry_failed_archives: position in todo
    pw,            \* retry_failed_archives: position in passwords
    retry_count,   \* retry_failed_archives local
    success_count, \* retry_failed_archives local
    rpc,           \* position of retry_failed_archives
    attempts,      \* history: the calls of process_single_archive (retry, m2.py)
    mpc,           \* position of main, process_directory, process_single_archive
    args_password, \* args.password, "" when it is not given
    archive_files, \* process_directory: the paths find_archives listed
    idx,           \* process_directory: position in archive_files
    archive,       \* process_single_archive local: option, the wrapper
    success,       \* process_single_archive local
    existing_data, \* update_json_file local: the systems_data it writes
    raised,        \* the exception that is propagating, "None" when none is
    processed_count, \* process_directory local
    skipped_count, \* process_directory local
    exit_status,   \* option: the status the process has exited with
    output_corrupt, \* the output file holds a partial write
    handles,       \* the archives that have an open handle
    interrupted_at, \* history: where main was when a signal arrived, or "None"
    summary,       \* history: main has logged its final summary
    moves,         \* history: the moves move_file has made
    parsed,        \* history: how process_archive ended for the archive
    wrote          \* history: how update_json_file ended for the archive

pvars == <<namelist, files, index, leak, pc, stealer_name, system_data,
           current_dir, count, text, groups, discovered, outcome, signatures,
           origin>>

\* pvars without the leak
pipeline_locals == <<namelist, files, index, pc, stealer_name, system_data,
                     current_dir, count, text, groups, discovered, outcome,
                     signatures, origin>>

mvars == <<fs, passwords, output_file, output, todo, cur, pw, retry_count,
           success_count, rpc, attempts>>

dvars == <<mpc, args_password, archive_files, idx, archive, success, existing_data,
           raised, processed_count, skipped_count, exit_status, output_corrupt,
           handles, interrupted_at, summary, moves, parsed, wrote>>

vars == <<pvars, mvars, dvars>>

-----------------------------------------------------------------------------
(* Bounds *)

MaxEntries == 3   \* entries of an archive in the pipeline specification
MaxNames == 2     \* entries of an archive in the classification specification
MaxArchives == 2  \* archive files in the failure bucket
MaxPasswords == 3 \* candidate passwords
MaxFiles == 2     \* archive files under the directory main is given

-----------------------------------------------------------------------------
(* Strings *)

\* The tokens in the order of their spellings (code point order).
TokenOrder ==
    << "#", ".bak", ".txt", "/", "Alice", "Bob", "System", "copyright",
       "cracker", "credits", "information", "ip", "notes", "password",
       "read", "system", "userinfo" >>

RankOf ==
    [t \in {TokenOrder[i] : i \in 1..Len(TokenOrder)} |->
        CHOOSE i \in 1..Len(TokenOrder) : TokenOrder[i] = t]

Rank(t) == RankOf[t]

\* str.__lt__ on the spelled strings.
RECURSIVE StrLess(_, _)
StrLess(a, b) ==
    IF a = <<>> THEN b # <<>>
    ELSE IF b = <<>> THEN FALSE
    ELSE IF Head(a) = Head(b) THEN StrLess(Tail(a), Tail(b))
    ELSE Rank(Head(a)) < Rank(Head(b))

\* Case folding of (?i): the only token spelled with an upper-case letter
\* that a keyword matches is "System".
Lower(t) == IF t = "System" THEN "system" ELSE t

\* \b before a token: the preceding character is not a word character.
WordBoundary(name, i) == i = 1 \/ name[i - 1] \in {"#", "/"}

\* sorted(names): the ascending enumeration of a set of paths.
RECURSIVE sorted(_)
sorted(S) ==
    IF S = {} THEN <<>>
    ELSE LET m == CHOOSE x \in S : \A y \in S \ {x} : StrLess(x, y)
         IN  <<m>> \o sorted(S \ {m})

\* str.find("/", from) in token positions; 0 when there is none.
Find(filepath, from) ==
    LET hits == {i \in from..Len(filepath) : filepath[i] = "/"}
    IN  IF hits = {} THEN 0 ELSE CHOOSE i \in hits : \A j \in hits : i <= j

-----------------------------------------------------------------------------
(* FILENAMES_PATTERN *)

\* The capture group (2..5) of the alternative that matches at token i; 0 when
\* none does.
KeywordGroup(name, i) ==
    LET t == Lower(name[i])
    IN  IF t = "password"
           /\ ~(i < Len(name) /\ Lower(name[i + 1]) = "cracker")
        THEN 2
        ELSE IF t \in {"system", "information", "userinfo"} THEN 3
        ELSE IF t = "ip" /\ WordBoundary(name, i) THEN 4
        ELSE IF t \in {"credits", "copyright", "read"} THEN 5
        ELSE 0

\* The trailing .*\.txt after the keyword at token i.
TailMatches(name, i) == \E j \in (i + 1)..Len(name) : Lower(name[j]) = ".txt"

\* The leading .* is greedy: the keyword that is captured is the last one
\* the rest of the pattern can follow.  0 when the pattern does not match.
MatchPos(name) ==
    LET hits == {i \in 1..Len(name) :
                    KeywordGroup(name, i) # 0 /\ TailMatches(name, i)}
    IN  IF hits = {} THEN 0 ELSE CHOOSE i \in hits : \A j \in hits : j <= i

\* FILENAMES_PATTERN.search(name): the group that participates, 0 for None.
FilenamesPatternSearch(name) ==
    IF MatchPos(name) = 0 THEN 0 ELSE KeywordGroup(name, MatchPos(name))

-----------------------------------------------------------------------------
(* Classification *)

LogFileType == {"PASSWORDS", "SYSTEM", "IP", "COPYRIGHT"}

Unbound == "UNBOUND"

LogFile(type, filename, system_dir) ==
    [type |-> type, filename |-> filename, system_dir |-> system_dir]

get_system_dir_first(filepath) ==
    LET s == Find(filepath, 1)
    IN  IF s > 0
        THEN LET e == Find(filepath, s + 1)
             IN  IF e > s + 1 THEN SubSeq(filepath, 1, s - 1)
                 ELSE SubSeq(filepath, 1, s)
        ELSE filepath

get_system_dir(filepath) ==
    LET s == Find(filepath, 1)
    IN  IF s > 0
        THEN LET e == Find(filepath, s + 1)
             IN  IF e > s + 1 THEN SubSeq(filepath, s + 1, e - 1)
                 ELSE SubSeq(filepath, 1, s)
        ELSE filepath

\* The if/elif chain of generate_file_list: the value of log_type after it,
\* given the value it had before (no branch assigns when group 3 matched a
\* name that holds a "#").
LogTypeAfter(name, log_type) ==
    LET g == FilenamesPatternSearch(name)
    IN  IF g = 2 THEN "PASSWORDS"
        ELSE IF g = 3 /\ "#" \notin {name[i] : i \in 1..Len(name)} THEN "SYSTEM"
        ELSE IF g = 4 THEN "IP"
        ELSE IF g = 5 THEN "COPYRIGHT"
        ELSE log_type

\* The loop of generate_file_list over names[i..]; reading an unbound
\* log_type raises UnboundLocalError.
RECURSIVE GenLoop(_, _, _, _)
GenLoop(names, i, log_type, acc) ==
    IF i > Len(names) THEN [files |-> acc, raised |-> FALSE]
    ELSE IF FilenamesPatternSearch(names[i]) = 0
         THEN GenLoop(names, i + 1, log_type, acc)
    ELSE LET t == LogTypeAfter(names[i], log_type)
         IN  IF t = Unbound THEN [files |-> acc, raised |-> TRUE]
             ELSE GenLoop(names, i + 1, t,
                     Append(acc, LogFile(t, names[i], get_system_dir(names[i]))))

Reverse(s) == [i \in 1..Len(s) |-> s[Len(s) + 1 - i]]

generate_file_list_reversed(root) ==
    GenLoop(Reverse(sorted(root)), 1, Unbound, <<>>)

generate_file_list(root) == GenLoop(sorted(root), 1, Unbound, <<>>)

-----------------------------------------------------------------------------
(* Inputs *)

\* The subsets of S with at most k elements.
RECURSIVE UpTo(_, _)
UpTo(S, k) ==
    IF k = 0 THEN {{}}
    ELSE LET smaller == UpTo(S, k - 1)
         IN  smaller \cup {T \cup {x} : T \in smaller, x \in S}

\* Entry paths of the archives of the pipeline specification.
ArchivePaths ==
    { <<"Alice", "/", "ip", ".txt">>,
      <<"Alice", "/", "read", ".txt">>,
      <<"Bob", "/", "System", ".txt">>,
      <<"Bob", "/", "ip", ".txt">>,
      <<"Bob", "/", "password", ".txt">>,
      <<"Bob", "/", "password", "/", "ip", ".txt">>,
      <<"Bob", "/", "system", ".txt">>,
      <<"Bob", "/", "notes", ".txt">> }

\* Entry paths of the classification specification: directory prefix, base
\* name, extension.
DirPrefixes ==
    { <<>>,
      <<"Alice", "/", "Bob", "/">>,
      <<"Bob", "/", "Alice", "/", "Bob", "/">>,
      <<"password", "/">>,
      <<"system", "/", "#", "/">> }

BaseNames ==
    { <<"password">>, <<"password", "cracker">>, <<"System">>,
      <<"system", "#">>, <<"ip">>, <<"Bob", "ip">>, <<"read">> }

Extensions == { <<".txt">>, <<".bak">>, <<".txt", ".bak">> }

ClassifyPaths ==
    {d \o n \o e : d \in DirPrefixes, n \in BaseNames, e \in Extensions}

Ips == {"10.0.0.5", "8.8.8.8"}

Stealers == {"redline", "raccoon"}

-----------------------------------------------------------------------------
(* Records *)

None == <<>>
Some(x) == <<x>>
Get(o) == o[1]

\* System: the IP address and one more attribute; "" is the empty value.
System(ip_address, computer_name) ==
    [ip_address |-> ip_address, computer_name |-> computer_name]

Systems ==
    { System("", ""), System("", "PC"), System("10.0.0.5", "PC"),
      System("8.8.8.8", "") }

\* SystemData()
SystemData ==
    [system |-> None, credentials |-> <<>>, stealer_name |-> "None"]

\* SystemData.add_stealer_name
add_stealer_name(sd, name) == [sd EXCEPT !.stealer_name = name]

\* What an entry's text holds, as far as the parsers look at it: the family
\* signature in it, whether the lexer fails on it, the credentials, the
\* system record and the bare IP address it parses to.
Text(stealer, lexerr, creds, system, ip) ==
    [stealer |-> stealer, lexerr |-> lexerr, creds |-> creds,
     system |-> system, ip |-> ip]

\* The texts a file of a given type is read as: the fields its parser does
\* not look at are left empty, and so are all of them in a text the lexer
\* fails on; the texts that hold a family signature vary less in what else
\* they hold than those that hold none.
TextsFor(type) ==
    IF type = "PASSWORDS"
    THEN {Text("None", FALSE, c, None, "") : c \in {<<>>, <<"cred">>}}
         \cup {Text("None", TRUE, <<>>, None, "")}
         \cup {Text(s, FALSE, c, None, "") :
                  s \in Stealers, c \in {<<>>, <<"cred">>}}
    ELSE IF type = "SYSTEM"
    THEN {Text("None", FALSE, <<>>, y, "") :
            y \in {None} \cup {Some(x) : x \in Systems}}
         \cup {Text("None", TRUE, <<>>, None, "")}
         \cup {Text(s, FALSE, <<>>, y, "") :
                  s \in Stealers, y \in {None, Some(System("", "PC"))}}
    ELSE IF type = "IP"
    THEN {Text("None", FALSE, <<>>, None, a) : a \in Ips \cup {""}}
         \cup {Text(s, FALSE, <<>>, None, a) :
                  s \in Stealers, a \in {"", "8.8.8.8"}}
    ELSE {Text(s, FALSE, <<>>, None, "") : s \in Stealers \cup {"None"}}

\* The errors the archive library raises while an entry is read.
LibraryErrors ==
    {"KeyError", "CrcError", "ValueError", "AttributeError", "RuntimeError",
     "BadZipFile", "BadRarFile"}

\* ArchiveWrapper.read_file: the error that leaves it when the library raises
\* e (AttributeError and ValueError become RuntimeError).
read_file_error(e) ==
    IF e \in {"AttributeError", "ValueError"} THEN "RuntimeError" ELSE e

\* The errors that leave read_file.
ReadErrors == {read_file_error(e) : e \in LibraryErrors}

\* The errors the loop of process_system_dir catches.
CaughtErrors ==
    {"CrcError", "KeyError", "UnicodeDecodeError", "ValueError", "TypeError"}

\* The caught errors that the signature search and the parsers can raise on
\* a text that was read.
ParserErrors == {"UnicodeDecodeError", "ValueError", "TypeError"}

\* The read errors that leave process_system_dir.
EscapingErrors == ReadErrors \ CaughtErrors

\* search_stealer_name(text)
search_stealer_name(t) == t.stealer

\* parse_passwords(logger, filename, text)
parse_passwords(t) == t.creds

\* parse_system(logger, filename, text)
parse_system(t) == t.system

\* retrieve_ip_only(text, system_data): an IP found in the text is stored
\* unless the group already holds a non-empty IP.
retrieve_ip_only(t, sd) ==
    IF t.ip = "" THEN sd
    ELSE IF sd.system = None
    THEN [sd EXCEPT !.system = Some(System(t.ip, ""))]
    ELSE IF Get(sd.system).ip_address # "" THEN sd
    ELSE [sd EXCEPT !.system = Some([Get(sd.system) EXCEPT !.ip_address = t.ip])]

-----------------------------------------------------------------------------
(* main.py: files, buckets, process_single_archive *)

SuccessDir == "processed_success"

FailedDir == "processed_failed"

\* An archive: the password it requires ("" when it requires none) and the
\* number of victim records a complete parse of it yields.
Archive(password, records) == [password |-> password, records |-> records]

\* A file name is its base followed by the counters move_file has appended
\* to the stem: <<"a", 1>> is a_1.zip.
File(dir, name, arc) == [dir |-> dir, name |-> name, arc |-> arc]

Path(dir, name) == [dir |-> dir, name |-> name]

Exists(fsys, path) == \E f \in fsys : f.dir = path.dir /\ f.name = path.name

FileAt(fsys, path) == CHOOSE f \in fsys : f.dir = path.dir /\ f.name = path.name

DestName_same_name(fsys, name, dir) == name

\* The destination move_file settles on: the name itself when it is free in
\* the directory, else the first free stem_counter, counter = 1, 2, ...
DestName(fsys, name, dir) ==
    IF ~Exists(fsys, Path(dir, name)) THEN name
    ELSE LET free == {c \in 1..(Cardinality(fsys) + 1) :
                         ~Exists(fsys, Path(dir, Append(name, c)))}
         IN  Append(name, CHOOSE c \in free : \A d \in free : c <= d)

\* move_file: shutil.move raises when the source is gone, and move_file
\* returns False; a file at the destination path would be replaced.
move_file(fsys, path, dir) ==
    IF ~Exists(fsys, path) THEN [ok |-> FALSE, fs |-> fsys, dest |-> path]
    ELSE LET dest == Path(dir, DestName(fsys, path.name, dir))
             kept == {f \in fsys : Path(f.dir, f.name) \notin {path, dest}}
         IN  [ok |-> TRUE,
              fs |-> kept \cup {File(dir, dest.name, FileAt(fsys, path).arc)},
              dest |-> dest]

\* The victim records an archive yields: n records under the archive's path.
RecordsOf(path, n) == [k \in 1..n |-> [filename |-> path, record |-> k]]

update_json_file_overwrite(existing, systems_data) == systems_data

\* update_json_file: the systems_data array it writes, given the array read
\* from the file (empty when the file is missing, empty or not valid JSON).
update_json_file(existing, systems_data) == existing \o systems_data

\* is_password_protected: True as well when the file cannot be opened.
is_password_protected(fsys, path) ==
    IF ~Exists(fsys, path) THEN TRUE ELSE FileAt(fsys, path).arc.password # ""

\* read_archive and process_archive on the file: the number of records in
\* leak.systems_data afterwards.  A missing file, and a password that is not
\* the one the archive requires, leave the leak empty.
LeakOf(fsys, path, password) ==
    IF ~Exists(fsys, path) THEN 0
    ELSE LET arc == FileAt(fsys, path).arc
         IN  IF arc.password = "" \/ arc.password = password
             THEN arc.records ELSE 0

\* process_single_archive with both bucket directories given; password ""
\* is None; write is how update_json_file ends when it is called.
process_single_archive(fsys, out, path, password, write) ==
    IF password = "" /\ is_password_protected(fsys, path)
    THEN [success |-> FALSE, output |-> out,
          move |-> move_file(fsys, path, FailedDir)]
    ELSE LET n == LeakOf(fsys, path, password)
             ok == output_file /\ n > 0 /\ write = "ok"
         IN  [success |-> ok,
              output |-> IF ok THEN update_json_file(out, RecordsOf(path, n))
                         ELSE out,
              move |-> move_file(fsys, path,
                                 IF ok THEN SuccessDir ELSE FailedDir)]

\* How update_json_file ends: it returns, or raises RuntimeError.
WriteOutcomes == {"ok", "RuntimeError"}

CandidatePasswords == {"wrong1", "abc123", "wrong2"}

\* The lists of at most k elements of S.
RECURSIVE ListsUpTo(_, _)
ListsUpTo(S, k) ==
    IF k = 0 THEN {<<>>}
    ELSE LET shorter == ListsUpTo(S, k - 1)
         IN  shorter \cup {Append(l, x) : l \in shorter, x \in S}

Archives == {Archive(p, n) : p \in {"", "abc123"}, n \in {0, 1}}

\* The names of the files found in the failure bucket.
BucketNames == { <<"a">>, <<"a", 1>> }

\* The contents the failure bucket can have: at most MaxArchives files, each
\* name at most once.
Buckets ==
    {b \in UpTo({File(FailedDir, n, a) : n \in BucketNames, a \in Archives},
                MaxArchives) :
        \A f, g \in b : f.name = g.name => f = g}

\* The orders in which os.walk can list the files of a directory.
Listings(fsys, dir) ==
    LET paths == {Path(f.dir, f.name) : f \in {g \in fsys : g.dir = dir}}
    IN  {l \in ListsUpTo(paths, Cardinality(paths)) :
            /\ Len(l) = Cardinality(paths)
            /\ \A i, j \in 1..Len(l) : l[i] = l[j] => i = j}

\* main is not running: its variables in the specifications of the parts.
DirectoryIdle ==
    /\ mpc = "idle"
    /\ args_password = ""
    /\ archive_files = <<>>
    /\ idx = 0
    /\ archive = None
    /\ success = FALSE
    /\ existing_data = <<>>
    /\ raised = "None"
    /\ processed_count = 0
    /\ skipped_count = 0
    /\ exit_status = None
    /\ output_corrupt = FALSE
    /\ handles = {}
    /\ interrupted_at = "None"
    /\ summary = FALSE
    /\ moves = <<>>
    /\ parsed = "none"
    /\ wrote = "none"

MainIdle ==
    /\ fs = {}
    /\ passwords = <<>>
    /\ output_file = FALSE
    /\ output = <<>>
    /\ todo = <<>>
    /\ cur = 0
    /\ pw = 0
    /\ retry_count = 0
    /\ success_count = 0
    /\ rpc = "idle"
    /\ attempts = <<>>
    /\ DirectoryIdle

-----------------------------------------------------------------------------
(* processing.py: parse_file, process_system_dir, process_archive *)

parse_file_overwrite(sd, file, t) ==
    IF file.type = "PASSWORDS"
    THEN IF t.lexerr THEN sd
         ELSE [sd EXCEPT !.credentials = @ \o parse_passwords(t)]
    ELSE IF file.type = "SYSTEM"
    THEN IF t.lexerr \/ parse_system(t) = None THEN sd
         ELSE [sd EXCEPT !.system = parse_system(t)]
    ELSE IF file.type = "IP" THEN retrieve_ip_only(t, sd)
    ELSE sd

\* parse_file: the system data after the text of one file has been parsed.
\* LexError and SyntaxError are caught: the file then contributes nothing.
parse_file(sd, file, t) ==
    IF file.type = "PASSWORDS"
    THEN IF t.lexerr THEN sd
         ELSE [sd EXCEPT !.credentials = @ \o parse_passwords(t)]
    ELSE IF file.type = "SYSTEM"
    THEN IF t.lexerr \/ parse_system(t) = None THEN sd
         ELSE IF sd.system # None /\ Get(sd.system).ip_address # ""
         THEN [sd EXCEPT !.system =
                  Some([Get(parse_system(t)) EXCEPT
                           !.ip_address = Get(sd.system).ip_address])]
         ELSE [sd EXCEPT !.system = parse_system(t)]
    ELSE IF file.type = "IP" THEN retrieve_ip_only(t, sd)
    ELSE sd

\* any(list(system.__dict__.values()))
AnyAttribute(system) == system.ip_address # "" \/ system.computer_name # ""

ShouldAppend_system_only(sd) == sd.system # None \/ sd.credentials # <<>>

\* The condition under which process_system_dir appends the system data.
ShouldAppend(sd) ==
    (sd.system # None /\ AnyAttribute(Get(sd.system))) \/ sd.credentials # <<>>

ShouldAttach_any_match(sd, name) == name # "None"

\* The condition under which process_system_dir attaches the stealer name.
ShouldAttach(sd, name) == sd.credentials # <<>> /\ name # "None"

NextStealerName_last_match(current, t) ==
    IF search_stealer_name(t) # "None" THEN search_stealer_name(t) ELSE current

\* The stealer name after a text has been read: the signature search runs
\* only while no name has been found in the group.
NextStealerName(current, t) ==
    IF current = "None" THEN search_stealer_name(t) ELSE current

EndsGroup_never(file, dir) == FALSE

EndsGroup_always(file, dir) == TRUE

\* The break of the loop of process_system_dir.
EndsGroup(file, dir) == file.system_dir # dir

\* The file the loop of process_system_dir is at.
AtFile == files[index + count + 1]

\* The loop of process_system_dir is over: the list is exhausted, or it breaks.
LoopDone ==
    IF index + count >= Len(files) THEN TRUE
    ELSE EndsGroup(AtFile, current_dir)

\* The IP a file's text brings into its group, "" when it brings none.
IpOf(file, t) ==
    IF file.type = "SYSTEM" /\ ~t.lexerr /\ parse_system(t) # None
    THEN Get(parse_system(t)).ip_address
    ELSE IF file.type = "IP" THEN t.ip
    ELSE ""

AppendToLast(gs, f) == [gs EXCEPT ![Len(gs)] = Append(@, f)]

\* process_archive: generate_file_list(archive).
GenerateFileList ==
    /\ pc = "start"
    /\ LET r == generate_file_list(namelist)
       IN  /\ files' = r.files
           /\ pc' = IF r.raised THEN "raised" ELSE "archive"
    /\ UNCHANGED <<namelist, index, leak, stealer_name, system_data,
                   current_dir, count, text, groups, discovered, outcome,
                   signatures, origin>>
    /\ UNCHANGED <<mvars, dvars>>

\* process_archive: the loop test holds, process_system_dir is entered.
EnterSystemDir ==
    /\ pc = "archive"
    /\ index < Len(files)
    /\ stealer_name' = "None"
    /\ system_data' = SystemData
    /\ current_dir' = files[index + 1].system_dir
    /\ count' = 0
    /\ groups' = Append(groups, <<>>)
    /\ discovered' = <<>>
    /\ outcome' = "none"
    /\ signatures' = Append(signatures, <<>>)
    /\ pc' = "dir"
    /\ UNCHANGED <<namelist, files, index, leak, text, origin>>
    /\ UNCHANGED <<mvars, dvars>>

\* process_system_dir: one iteration of the loop, the read succeeds.
ReadAndParse ==
    /\ pc = "dir"
    /\ ~LoopDone
    /\ \E t \in TextsFor(AtFile.type) :
          /\ text' = Some(t)
          /\ stealer_name' = NextStealerName(stealer_name, t)
          /\ signatures' = IF search_stealer_name(t) = "None" THEN signatures
                           ELSE AppendToLast(signatures, search_stealer_name(t))
          /\ system_data' = parse_file(system_data, AtFile, t)
          /\ discovered' = IF IpOf(AtFile, t) = "" THEN discovered
                           ELSE Append(discovered,
                                   [type |-> AtFile.type, ip |-> IpOf(AtFile, t)])
    /\ count' = count + 1
    /\ groups' = AppendToLast(groups, AtFile)
    /\ outcome' = "ok"
    /\ UNCHANGED <<namelist, files, index, leak, pc, current_dir, origin>>
    /\ UNCHANGED <<mvars, dvars>>

\* process_system_dir: one iteration of the loop, the text is read and
\* parse_file raises an error the loop catches; the signature search has run.
ParseFails ==
    /\ pc = "dir"
    /\ ~LoopDone
    /\ \E s \in Stealers \cup {"None"} :
          LET t == Text(s, FALSE, <<>>, None, "")
          IN  /\ text' = Some(t)
              /\ stealer_name' = NextStealerName(stealer_name, t)
              /\ signatures' =
                    IF search_stealer_name(t) = "None" THEN signatures
                    ELSE AppendToLast(signatures, search_stealer_name(t))
    /\ \E e \in ParserErrors \cap CaughtErrors : outcome' = e
    /\ count' = count + 1
    /\ groups' = AppendToLast(groups, AtFile)
    /\ UNCHANGED <<namelist, files, index, leak, pc, system_data, current_dir,
                   discovered, origin>>
    /\ UNCHANGED <<mvars, dvars>>

\* process_system_dir: one iteration of the loop, read_file raises an error
\* the loop catches.
ReadFails ==
    /\ pc = "dir"
    /\ ~LoopDone
    /\ count' = count + 1
    /\ groups' = AppendToLast(groups, AtFile)
    /\ \E e \in ReadErrors \cap CaughtErrors : outcome' = e
    /\ UNCHANGED <<namelist, files, index, leak, pc, stealer_name, system_data,
                   current_dir, text, discovered, signatures, origin>>
    /\ UNCHANGED <<mvars, dvars>>

\* process_system_dir: read_file raises an error the loop does not catch:
\* RuntimeError, which process_archive catches and logs (the archive is left
\* unfinished), or another one, which leaves process_archive.
ReadAborts ==
    /\ pc = "dir"
    /\ ~LoopDone
    /\ \E e \in EscapingErrors :
          /\ outcome' = e
          /\ pc' = IF e = "RuntimeError" THEN "aborted" ELSE "raised"
    /\ UNCHANGED <<namelist, files, index, leak, stealer_name, system_data,
                   current_dir, count, text, groups, discovered, signatures,
                   origin>>
    /\ UNCHANGED <<mvars, dvars>>

\* process_system_dir: after the loop; process_archive adds the count.
LeaveSystemDir ==
    /\ pc = "dir"
    /\ LoopDone
    /\ LET sd == IF ShouldAttach(system_data, stealer_name)
                 THEN add_stealer_name(system_data, stealer_name)
                 ELSE system_data
       IN  /\ system_data' = sd
           /\ leak' = IF ShouldAppend(sd) THEN Append(leak, sd) ELSE leak
           /\ origin' = IF ShouldAppend(sd) THEN Append(origin, Len(groups))
                        ELSE origin
    /\ index' = index + count
    /\ pc' = "archive"
    /\ UNCHANGED <<namelist, files, stealer_name, current_dir, count, text,
                   groups, discovered, outcome, signatures>>
    /\ UNCHANGED <<mvars, dvars>>

\* process_archive: the loop test fails, the else branch logs the result.
FinishArchive ==
    /\ pc = "archive"
    /\ index >= Len(files)
    /\ pc' = "done"
    /\ UNCHANGED <<namelist, files, index, leak, stealer_name, system_data,
                   current_dir, count, text, groups, discovered, outcome,
                   signatures, origin>>
    /\ UNCHANGED <<mvars, dvars>>

InitLocals ==
    /\ files = <<>>
    /\ index = 0
    /\ leak = <<>>
    /\ pc = "start"
    /\ stealer_name = "None"
    /\ system_data = SystemData
    /\ current_dir = <<>>
    /\ count = 0
    /\ text = None
    /\ groups = <<>>
    /\ discovered = <<>>
    /\ outcome = "none"
    /\ signatures = <<>>
    /\ origin = <<>>
    /\ MainIdle

Init ==
    /\ namelist \in UpTo(ArchivePaths, MaxEntries)
    /\ InitLocals

Next ==
    \/ GenerateFileList
    \/ EnterSystemDir
    \/ ReadAndParse
    \/ ParseFails
    \/ ReadFails
    \/ ReadAborts
    \/ LeaveSystemDir
    \/ FinishArchive

Spec == Init /\ [][Next]_vars

\* The classification alone, over a wider set of entry paths.
InitClassify ==
    /\ \E T \in UpTo(ClassifyPaths, MaxNames - 1) :
          \/ namelist = T
          \/ \E x \in ClassifyPaths :
                /\ \A y \in T : StrLess(y, x)
                /\ namelist = T \cup {x}
    /\ InitLocals

NextClassify == GenerateFileList

SpecClassify == InitClassify /\ [][NextClassify]_vars

-----------------------------------------------------------------------------
(* main.py: retry_failed_archives *)

PipelineIdle ==
    /\ namelist = {}
    /\ files = <<>>
    /\ index = 0
    /\ leak = <<>>
    /\ pc = "idle"
    /\ stealer_name = "None"
    /\ system_data = SystemData
    /\ current_dir = <<>>
    /\ count = 0
    /\ text = None
    /\ groups = <<>>
    /\ discovered = <<>>
    /\ outcome = "none"
    /\ signatures = <<>>
    /\ origin = <<>>

\* The failure bucket exists and holds the archives that failed before; the
\* candidate passwords are what load_passwords returned.
InitRetry ==
    /\ fs \in Buckets
    /\ passwords \in ListsUpTo(CandidatePasswords, MaxPasswords)
    /\ output_file \in BOOLEAN
    /\ output = <<>>
    /\ todo = <<>>
    /\ cur = 0
    /\ pw = 0
    /\ retry_count = 0
    /\ success_count = 0
    /\ rpc = "start"
    /\ attempts = <<>>
    /\ PipelineIdle
    /\ DirectoryIdle

\* retry_failed_archives returns (0, 0): there are no passwords.
RetryNothing ==
    /\ mpc \in {"idle", "retry"}
    /\ rpc = "start"
    /\ passwords = <<>>
    /\ rpc' = "returned"
    /\ UNCHANGED <<fs, passwords, output_file, output, todo, cur, pw,
                   retry_count, success_count, attempts>>
    /\ UNCHANGED <<pvars, dvars>>

\* retry_failed_archives: find_archives lists the failure bucket.
RetryStart ==
    /\ mpc \in {"idle", "retry"}
    /\ rpc = "start"
    /\ passwords # <<>>
    /\ todo' \in Listings(fs, FailedDir)
    /\ cur' = 1
    /\ pw' = 1
    /\ rpc' = "loop"
    /\ UNCHANGED <<fs, passwords, output_file, output, retry_count,
                   success_count, attempts>>
    /\ UNCHANGED <<pvars, dvars>>

\* retry_failed_archives: one pass of the password loop, a call of
\* process_single_archive on the path find_archives gave; the loop breaks
\* when the call succeeds and ends when the passwords are exhausted.
RetryAttempt ==
    /\ mpc \in {"idle", "retry"}
    /\ rpc = "loop"
    /\ cur <= Len(todo)
    /\ \E write \in WriteOutcomes :
          LET r == process_single_archive(fs, output, todo[cur],
                                          passwords[pw], write)
          IN  /\ fs' = r.move.fs
              /\ moves' = IF r.move.ok
                          THEN Append(moves, [path |-> todo[cur],
                                              dest |-> r.move.dest])
                          ELSE moves
              /\ output' = r.output
              /\ output_corrupt' = IF r.success THEN FALSE ELSE output_corrupt
              /\ success_count' = IF r.success THEN success_count + 1
                                  ELSE success_count
              /\ attempts' = Append(attempts,
                                [path |-> todo[cur], candidate |-> pw,
                                 present |-> Exists(fs, todo[cur]),
                                 arc |-> IF Exists(fs, todo[cur])
                                         THEN FileAt(fs, todo[cur]).arc
                                         ELSE Archive("", 0),
                                 write |-> IF output_file
                                              /\ LeakOf(fs, todo[cur], passwords[pw]) > 0
                                           THEN write ELSE "none",
                                 success |-> r.success])
              /\ IF r.success \/ pw = Len(passwords)
                 THEN cur' = cur + 1 /\ pw' = 1
                 ELSE cur' = cur /\ pw' = pw + 1
    /\ retry_count' = IF pw = 1 THEN retry_count + 1 ELSE retry_count
    /\ UNCHANGED <<passwords, output_file, todo, rpc>>
    /\ UNCHANGED <<mpc, args_password, archive_files, idx, archive, success,
                   existing_data, raised, processed_count, skipped_count,
                   exit_status, handles, interrupted_at, summary, parsed,
                   wrote>>
    /\ UNCHANGED pvars

\* retry_failed_archives returns (success_count, retry_count).
RetryReturn ==
    /\ mpc \in {"idle", "retry"}
    /\ rpc = "loop"
    /\ cur > Len(todo)
    /\ rpc' = "returned"
    /\ UNCHANGED <<fs, passwords, output_file, output, todo, cur, pw,
                   retry_count, success_count, attempts>>
    /\ UNCHANGED <<pvars, dvars>>

NextRetry ==
    \/ RetryNothing
    \/ RetryStart
    \/ RetryAttempt
    \/ RetryReturn

SpecRetry == InitRetry /\ [][NextRetry]_vars

-----------------------------------------------------------------------------
(* main.py: main on a directory, process_directory, process_single_archive *)

InputDir == "input"

\* The archives of the directory: the password and the number of records.
MainArchives == {Archive("", 0), Archive("", 2), Archive("abc123", 2)}

\* What the directory and its failure bucket can hold when main starts: at
\* most MaxFiles archive files, each path at most once.
Trees ==
    {t \in UpTo({File(d, n, a) : d \in {InputDir, FailedDir},
                                 n \in BucketNames, a \in MainArchives},
                MaxFiles) :
        \A f, g \in t : (f.dir = g.dir /\ f.name = g.name) => f = g}

\* The records an earlier run has left in the output file.
PriorOutput == <<[filename |-> Path(InputDir, <<"earlier">>), record |-> 1]>>

\* find_archives on the directory: os.walk yields the files of the directory
\* itself, then those of its subdirectories (the buckets), one directory
\* after the other, in the order the file system lists them.
WalkListings(fsys) ==
    LET paths == {Path(f.dir, f.name) : f \in fsys}
    IN  {l \in ListsUpTo(paths, Cardinality(paths)) :
            /\ Len(l) = Cardinality(paths)
            /\ \A i, j \in 1..Len(l) : l[i] = l[j] => i = j
            /\ \A i, j \in 1..Len(l) :
                  i < j => /\ l[j].dir = InputDir => l[i].dir = InputDir
                           /\ \A k \in i..j :
                                 l[i].dir = l[j].dir => l[k].dir = l[i].dir}

\* load_passwords on a password given as such (no file, no comma).
load_passwords(password_input) ==
    IF password_input = "" THEN <<>> ELSE <<password_input>>

\* The errors opening the file and read_archive can raise, and those that
\* leave process_archive.
OpenErrors == {"BadZipFile", "PasswordRequired", "BadRarFile", "OSError"}

ProcessErrors == {"BadZipFile", "BadRarFile", "UnboundLocalError"}

psa_catches_listed(e) == e \in {"BadZipFile", "PasswordRequired", "BadRarFile"}

\* The except clauses of process_single_archive: the three named errors and
\* Exception, which SystemExit is not.
psa_catches(e) == e # "SystemExit"

\* The status main exits with when an exception reaches it: sys.exit(1) on
\* KeyboardInterrupt and on Exception; SystemExit carries its own status,
\* which is the 0 signal_handler gave it.
main_exit_status(e) == IF e = "SystemExit" THEN 0 ELSE 1

close_leaves_open(hs, path) == hs

\* ArchiveWrapper.close
close(hs, path) == hs \ {path}

\* The archive process_single_archive is called on.
filepath == archive_files[idx]

\* The positions inside the try statement of process_single_archive.
TryBody == {"check", "open", "process", "write", "writing", "written"}

\* The positions of main.py's main and of what it calls.
MainPositions ==
    TryBody \cup {"main", "close", "move", "directory_done", "retry",
                  "summary", "propagate", "exited"}

\* The password given opens the archive.
PasswordFits(arc, password) == arc.password = "" \/ arc.password = password

\* The numbers of records the leak can hold when process_archive has stopped
\* at a RuntimeError: those of the groups before the one whose read raised.
\* With a password that does not fit, the first read raises.
StoppedCounts(arc, password) ==
    IF PasswordFits(arc, password) /\ arc.records > 0
    THEN 0..(arc.records - 1)
    ELSE {0}

\* main: setup_processing_folders raises (the directory cannot be written
\* to); main logs the error and exits with status 1.
MainSetupFails ==
    /\ mpc = "main"
    /\ raised' = "OSError"
    /\ mpc' = "propagate"
    /\ UNCHANGED <<pvars, mvars, args_password, archive_files, idx, archive,
                   success, existing_data, processed_count, skipped_count,
                   exit_status, output_corrupt, handles, interrupted_at,
                   summary, moves, parsed, wrote>>

\* process_directory: the buckets are made and find_archives lists the
\* directory; (0, 0) is returned when it lists nothing.
DirectoryStart ==
    /\ mpc = "main"
    /\ archive_files' \in WalkListings(fs)
    /\ idx' = 1
    /\ processed_count' = 0
    /\ skipped_count' = 0
    /\ mpc' = IF fs = {} THEN "directory_done" ELSE "check"
    /\ UNCHANGED <<pvars, mvars, args_password, archive, success,
                   existing_data, raised, exit_status, output_corrupt,
                   handles, interrupted_at, summary, moves, parsed, wrote>>

\* process_single_archive: the locals are set and the password check is
\* made; a protected archive without password is moved to the failure bucket
\* and False is returned (through the finally block).
SingleCheck ==
    /\ mpc = "check"
    /\ archive' = None
    /\ success' = FALSE
    /\ parsed' = "none"
    /\ wrote' = "none"
    /\ IF args_password = "" /\ is_password_protected(fs, filepath)
       THEN LET m == move_file(fs, filepath, FailedDir)
            IN  /\ fs' = m.fs
                /\ moves' = IF m.ok
                            THEN Append(moves, [path |-> filepath, dest |-> m.dest])
                            ELSE moves
                /\ mpc' = "close"
       ELSE /\ mpc' = "open"
            /\ UNCHANGED <<fs, moves>>
    /\ UNCHANGED <<pvars, passwords, output_file, output, todo, cur, pw,
                   retry_count, success_count, rpc, attempts, args_password,
                   archive_files, idx, existing_data, raised,
                   processed_count, skipped_count, exit_status,
                   output_corrupt, handles, interrupted_at, summary>>

\* process_single_archive: the file is read and read_archive opens the
\* archive, or one of them raises.
SingleOpen ==
    /\ mpc = "open"
    /\ leak' = <<>>
    /\ \/ /\ Exists(fs, filepath)
          /\ archive' = Some(filepath)
          /\ handles' = handles \cup {filepath}
          /\ mpc' = "process"
          /\ UNCHANGED raised
       \/ /\ \E e \in OpenErrors : raised' = IF psa_catches(e) THEN "None" ELSE e
          /\ mpc' = "close"
          /\ UNCHANGED <<archive, handles>>
    /\ UNCHANGED <<pipeline_locals, mvars, args_password, archive_files, idx,
                   success, existing_data, processed_count, skipped_count,
                   exit_status, output_corrupt, interrupted_at, summary,
                   moves, parsed, wrote>>

\* process_single_archive: process_archive returns or raises.  It returns
\* when it has processed every group, with the records of the archive, and
\* when a read raised RuntimeError, which it logs, with the records of the
\* groups it had finished (none when the password is not the archive's).
SingleProcess ==
    /\ mpc = "process"
    /\ LET arc == FileAt(fs, filepath).arc
       IN  \/ /\ PasswordFits(arc, args_password)
              /\ leak' = RecordsOf(filepath, arc.records)
              /\ parsed' = "clean"
              /\ mpc' = IF output_file /\ leak' # <<>> THEN "write" ELSE "close"
              /\ UNCHANGED raised
           \/ /\ \E n \in StoppedCounts(arc, args_password) :
                    leak' = RecordsOf(filepath, n)
              /\ parsed' = "stopped"
              /\ mpc' = IF output_file /\ leak' # <<>> THEN "write" ELSE "close"
              /\ UNCHANGED raised
           \/ /\ \E e \in ProcessErrors :
                    raised' = IF psa_catches(e) THEN "None" ELSE e
              /\ parsed' = "raised"
              /\ mpc' = "close"
              /\ UNCHANGED leak
    /\ UNCHANGED <<pipeline_locals, mvars, args_password, archive_files, idx,
                   archive, success, existing_data, processed_count,
                   skipped_count, exit_status, output_corrupt, handles,
                   interrupted_at, summary, moves, wrote>>

\* update_json_file: the existing data is read and extended and the file is
\* opened for writing, which empties it; or an error is raised before that,
\* and RuntimeError reaches process_single_archive.
UpdateOpen ==
    /\ mpc = "write"
    /\ \/ /\ existing_data' = update_json_file(output, leak)
          /\ output' = <<>>
          /\ output_corrupt' = TRUE
          /\ mpc' = "writing"
          /\ UNCHANGED <<raised, wrote>>
       \/ /\ raised' = IF psa_catches("RuntimeError") THEN "None" ELSE "RuntimeError"
          /\ wrote' = "failed"
          /\ mpc' = "close"
          /\ UNCHANGED <<existing_data, output, output_corrupt>>
    /\ UNCHANGED <<pvars, fs, passwords, output_file, todo, cur, pw,
                   retry_count, success_count, rpc, attempts, args_password,
                   archive_files, idx, archive, success, processed_count,
                   skipped_count, exit_status, handles, interrupted_at,
                   summary, moves, parsed>>

\* update_json_file: json.dump writes the data and the file is closed; or
\* the write fails, the file is left partial and RuntimeError is raised.
\* The locals of update_json_file end with it.
UpdateDump ==
    /\ mpc = "writing"
    /\ \/ /\ output' = existing_data
          /\ output_corrupt' = FALSE
          /\ wrote' = "ok"
          /\ mpc' = "written"
          /\ UNCHANGED raised
       \/ /\ raised' = IF psa_catches("RuntimeError") THEN "None" ELSE "RuntimeError"
          /\ wrote' = "failed"
          /\ mpc' = "close"
          /\ UNCHANGED <<output, output_corrupt>>
    /\ existing_data' = <<>>
    /\ UNCHANGED <<pvars, fs, passwords, output_file, todo, cur, pw,
                   retry_count, success_count, rpc, attempts, args_password,
                   archive_files, idx, archive, success, processed_count,
                   skipped_count, exit_status, handles, interrupted_at,
                   summary, moves, parsed>>

\* process_single_archive: success = True.
SingleSuccess ==
    /\ mpc = "written"
    /\ success' = TRUE
    /\ mpc' = "close"
    /\ UNCHANGED <<pvars, mvars, args_password, archive_files, idx, archive,
                   existing_data, raised, processed_count, skipped_count,
                   exit_status, output_corrupt, handles, interrupted_at,
                   summary, moves, parsed, wrote>>

\* process_single_archive, finally: the archive, when there is one, is
\* closed.
SingleClose ==
    /\ mpc = "close"
    /\ handles' = IF archive # None THEN close(handles, Get(archive)) ELSE handles
    /\ mpc' = "move"
    /\ UNCHANGED <<pvars, mvars, args_password, archive_files, idx, archive,
                   success, existing_data, raised, processed_count,
                   skipped_count, exit_status, output_corrupt,
                   interrupted_at, summary, moves, parsed, wrote>>

\* process_single_archive, finally: the file is moved to its bucket.  Then
\* the exception that is propagating, if any, leaves process_directory; else
\* the result is returned and process_directory counts it and goes on.  The
\* locals of process_single_archive end with it.
SingleMove ==
    /\ mpc = "move"
    /\ LET m == move_file(fs, filepath, IF success THEN SuccessDir ELSE FailedDir)
       IN  /\ fs' = m.fs
           /\ moves' = IF m.ok
                       THEN Append(moves, [path |-> filepath, dest |-> m.dest])
                       ELSE moves
    /\ IF raised # "None"
       THEN /\ mpc' = "propagate"
            /\ UNCHANGED <<idx, processed_count, skipped_count>>
       ELSE /\ processed_count' = IF success THEN processed_count + 1
                                  ELSE processed_count
            /\ skipped_count' = IF success THEN skipped_count
                                ELSE skipped_count + 1
            /\ idx' = idx + 1
            /\ mpc' = IF idx = Len(archive_files) THEN "directory_done"
                      ELSE "check"
    /\ archive' = None
    /\ success' = FALSE
    /\ leak' = <<>>
    /\ parsed' = "none"
    /\ wrote' = "none"
    /\ UNCHANGED <<pipeline_locals, passwords, output_file, output, todo,
                   cur, pw, retry_count, success_count, rpc, attempts,
                   args_password, archive_files, existing_data, raised,
                   exit_status, output_corrupt, handles, interrupted_at,
                   summary>>

\* main: process_directory has returned; the retry is started when a
\* password was given and archives were skipped.
MainAfterDirectory ==
    /\ mpc = "directory_done"
    /\ IF args_password # "" /\ skipped_count > 0
       THEN /\ passwords' = load_passwords(args_password)
            /\ rpc' = "start"
            /\ mpc' = "retry"
       ELSE /\ mpc' = "summary"
            /\ UNCHANGED <<passwords, rpc>>
    /\ UNCHANGED <<pvars, fs, output_file, output, todo, cur, pw,
                   retry_count, success_count, attempts, args_password,
                   archive_files, idx, archive, success, existing_data,
                   raised, processed_count, skipped_count, exit_status,
                   output_corrupt, handles, interrupted_at, summary, moves,
                   parsed, wrote>>

\* main: retry_failed_archives has returned; the counts are corrected.
MainAfterRetry ==
    /\ mpc = "retry"
    /\ rpc = "returned"
    /\ processed_count' = processed_count + success_count
    /\ skipped_count' = skipped_count - success_count
    /\ mpc' = "summary"
    /\ UNCHANGED <<pvars, mvars, args_password, archive_files, idx, archive,
                   success, existing_data, raised, exit_status,
                   output_corrupt, handles, interrupted_at, summary, moves,
                   parsed, wrote>>

\* main: the final summary is logged and main returns.
MainSummary ==
    /\ mpc = "summary"
    /\ summary' = TRUE
    /\ exit_status' = Some(0)
    /\ mpc' = "exited"
    /\ UNCHANGED <<pvars, mvars, args_password, archive_files, idx, archive,
                   success, existing_data, raised, processed_count,
                   skipped_count, output_corrupt, handles, interrupted_at,
                   moves, parsed, wrote>>

\* main: an exception has reached the try statement of main, or has left
\* main.
MainPropagate ==
    /\ mpc = "propagate"
    /\ exit_status' = Some(main_exit_status(raised))
    /\ mpc' = "exited"
    /\ UNCHANGED <<pvars, mvars, args_password, archive_files, idx, archive,
                   success, existing_data, raised, processed_count,
                   skipped_count, output_corrupt, handles, interrupted_at,
                   summary, moves, parsed, wrote>>

\* signal_handler: SIGINT or SIGTERM arrives and sys.exit(0) raises
\* SystemExit where main is.  Inside the try statement of
\* process_single_archive the finally block runs before it propagates;
\* elsewhere (inside the finally block too, the rest of which is skipped)
\* nothing stops it and the process exits.
Signal ==
    /\ mpc \in MainPositions \ {"propagate", "exited"}
    /\ interrupted_at' = mpc
    /\ raised' = "SystemExit"
    /\ IF mpc \in TryBody
       THEN /\ mpc' = "close"
            /\ UNCHANGED exit_status
       ELSE /\ mpc' = "exited"
            /\ exit_status' = Some(main_exit_status("SystemExit"))
    /\ UNCHANGED <<pvars, mvars, args_password, archive_files, idx, archive,
                   success, existing_data, processed_count, skipped_count,
                   output_corrupt, handles, summary, moves, parsed, wrote>>

\* main has installed its signal handlers and parsed its options; the
\* output file is absent or holds the records of an earlier run.
InitMain ==
    /\ fs \in Trees
    /\ args_password \in {"", "abc123"}
    /\ output_file \in BOOLEAN
    /\ output \in IF output_file THEN {<<>>, PriorOutput} ELSE {<<>>}
    /\ mpc = "main"
    /\ passwords = <<>>
    /\ todo = <<>>
    /\ cur = 0
    /\ pw = 0
    /\ retry_count = 0
    /\ success_count = 0
    /\ rpc = "idle"
    /\ attempts = <<>>
    /\ archive_files = <<>>
    /\ idx = 0
    /\ archive = None
    /\ success = FALSE
    /\ existing_data = <<>>
    /\ raised = "None"
    /\ processed_count = 0
    /\ skipped_count = 0
    /\ exit_status = None
    /\ output_corrupt = FALSE
    /\ handles = {}
    /\ interrupted_at = "None"
    /\ summary = FALSE
    /\ moves = <<>>
    /\ parsed = "none"
    /\ wrote = "none"
    /\ PipelineIdle

\* main calls retry_failed_archives with a password only, so of its steps
\* the early return for an empty password list is not among those of main.
NextMain ==
    \/ MainSetupFails
    \/ DirectoryStart
    \/ SingleCheck
    \/ SingleOpen
    \/ SingleProcess
    \/ UpdateOpen
    \/ UpdateDump
    \/ SingleSuccess
    \/ SingleClose
    \/ SingleMove
    \/ MainAfterDirectory
    \/ RetryStart
    \/ RetryAttempt
    \/ RetryReturn
    \/ MainAfterRetry
    \/ MainSummary
    \/ MainPropagate
    \/ Signal

SpecMain == InitMain /\ [][NextMain]_vars

-----------------------------------------------------------------------------
(* m2.py: main on a directory, process_single_archive; helpers.py *)

\* The order of two file names that differ in the counters move_file
\* appended: a.zip < a_1.zip < a_1_1.zip < a_2.zip ("." sorts before "_" and
\* before the digits).
RECURSIVE NameLess(_, _)
NameLess(a, b) ==
    IF a = <<>> THEN b # <<>>
    ELSE IF b = <<>> THEN FALSE
    ELSE IF Head(a) = Head(b) THEN NameLess(Tail(a), Tail(b))
    ELSE Head(a) < Head(b)

\* The order of two archive paths under the directory: its own files (their
\* names begin with "a") sort before those of processed_failed, and these
\* before those of processed_success.
DirRank(d) == IF d = InputDir THEN 0 ELSE IF d = FailedDir THEN 1 ELSE 2

PathLess(p, q) ==
    \/ DirRank(p.dir) < DirRank(q.dir)
    \/ p.dir = q.dir /\ NameLess(p.name, q.name)

\* sorted(archive_files): the ascending enumeration of a set of paths.
RECURSIVE SortedPaths(_)
SortedPaths(S) ==
    IF S = {} THEN <<>>
    ELSE LET m == CHOOSE x \in S : \A y \in S \ {x} : PathLess(x, y)
         IN  <<m>> \o SortedPaths(S \ {m})

\* get_archive_files on a directory: the archives below it, without those
\* that are protected when no password is given, sorted.
get_archive_files(fsys, password) ==
    SortedPaths({pth \in {Path(f.dir, f.name) : f \in fsys} :
                    ~(password = "" /\ is_password_protected(fsys, pth))})

\* The except clauses of m2.py's process_single_archive.
m2_catches(e) ==
    e \in {"FileNotFoundError", "NotImplementedError", "OSError",
           "PermissionError", "BadZipFile", "PasswordRequired", "BadRarFile",
           "RuntimeError"}

\* dump_to_file: write_text replaces the content of the file by the dump of
\* the leak; the result is the systems_data the file holds.
dump_to_file(existing, systems_data) == systems_data

\* m2.py, main on a directory: get_archive_files lists the archives; main
\* returns when there is none.
M2Start ==
    /\ mpc = "m2_main"
    /\ archive_files' = get_archive_files(fs, args_password)
    /\ idx' = 1
    /\ processed_count' = 0
    /\ skipped_count' = 0
    /\ IF archive_files' = <<>>
       THEN /\ mpc' = "m2_exited"
            /\ exit_status' = Some(0)
       ELSE /\ mpc' = "m2_open"
            /\ UNCHANGED exit_status
    /\ UNCHANGED <<pvars, mvars, args_password, archive, success,
                   existing_data, raised, output_corrupt, handles,
                   interrupted_at, summary, moves, parsed, wrote>>

\* m2.py, process_single_archive: the file is read and read_archive opens
\* the archive, or one of them raises.
M2Open ==
    /\ mpc = "m2_open"
    /\ leak' = <<>>
    /\ success' = FALSE
    /\ \/ /\ Exists(fs, filepath)
          /\ archive' = Some(filepath)
          /\ handles' = handles \cup {filepath}
          /\ mpc' = "m2_process"
          /\ UNCHANGED raised
       \/ /\ \E e \in OpenErrors : raised' = IF m2_catches(e) THEN "None" ELSE e
          /\ archive' = None
          /\ mpc' = "m2_close"
          /\ UNCHANGED handles
    /\ UNCHANGED <<pipeline_locals, mvars, args_password, archive_files, idx,
                   existing_data, processed_count, skipped_count,
                   exit_status, output_corrupt, interrupted_at, summary,
                   moves, parsed, wrote>>

\* m2.py, process_single_archive: process_archive returns (having processed
\* every group, or stopped at a RuntimeError it logs) or raises.
M2Process ==
    /\ mpc = "m2_process"
    /\ LET arc == FileAt(fs, filepath).arc
       IN  \/ /\ PasswordFits(arc, args_password)
              /\ leak' = RecordsOf(filepath, arc.records)
              /\ parsed' = "clean"
              /\ mpc' = "m2_dump"
              /\ UNCHANGED raised
           \/ /\ \E n \in StoppedCounts(arc, args_password) :
                    leak' = RecordsOf(filepath, n)
              /\ parsed' = "stopped"
              /\ mpc' = "m2_dump"
              /\ UNCHANGED raised
           \/ /\ \E e \in ProcessErrors :
                    raised' = IF m2_catches(e) THEN "None" ELSE e
              /\ parsed' = "raised"
              /\ mpc' = "m2_close"
              /\ UNCHANGED leak
    /\ UNCHANGED <<pipeline_locals, mvars, args_password, archive_files, idx,
                   archive, success, existing_data, processed_count,
                   skipped_count, exit_status, output_corrupt, handles,
                   interrupted_at, summary, moves, wrote>>

\* m2.py, process_single_archive: dump_to_file writes the leak to the output
\* file, or logs that it could not; True is returned (after the finally
\* block).
M2Dump ==
    /\ mpc = "m2_dump"
    /\ \/ /\ output' = dump_to_file(output, leak)
          /\ wrote' = "ok"
       \/ /\ wrote' = "failed"
          /\ UNCHANGED output
    /\ success' = TRUE
    /\ mpc' = "m2_close"
    /\ UNCHANGED <<pvars, fs, passwords, output_file, todo, cur, pw,
                   retry_count, success_count, rpc, attempts, args_password,
                   archive_files, idx, archive, existing_data, raised,
                   processed_count, skipped_count, exit_status,
                   output_corrupt, handles, interrupted_at, summary, moves,
                   parsed>>

\* m2.py, process_single_archive, finally: the archive, when there is one, is
\* closed.  Then an exception that no except clause names leaves main; else
\* the result is returned and main counts it and goes on.  The locals of
\* process_single_archive end with it.
M2Close ==
    /\ mpc = "m2_close"
    /\ handles' = IF archive # None THEN close(handles, Get(archive)) ELSE handles
    /\ attempts' = Append(attempts, [path |-> filepath, success |-> success,
                                     wrote |-> wrote, records |-> leak])
    /\ IF raised # "None"
       THEN /\ mpc' = "m2_exited"
            /\ exit_status' = Some(1)
            /\ UNCHANGED <<idx, processed_count, skipped_count>>
       ELSE /\ processed_count' = IF success THEN processed_count + 1
                                  ELSE processed_count
            /\ skipped_count' = IF success THEN skipped_count
                                ELSE skipped_count + 1
            /\ idx' = idx + 1
            /\ mpc' = IF idx = Len(archive_files) THEN "m2_summary"
                      ELSE "m2_open"
            /\ UNCHANGED exit_status
    /\ archive' = None
    /\ success' = FALSE
    /\ leak' = <<>>
    /\ parsed' = "none"
    /\ wrote' = "none"
    /\ UNCHANGED <<pipeline_locals, fs, passwords, output_file, output, todo,
                   cur, pw, retry_count, success_count, rpc, args_password,
                   archive_files, existing_data, raised, output_corrupt,
                   interrupted_at, summary, moves>>

\* m2.py, main: the final summary is logged and main returns.
M2Summary ==
    /\ mpc = "m2_summary"
    /\ summary' = TRUE
    /\ exit_status' = Some(0)
    /\ mpc' = "m2_exited"
    /\ UNCHANGED <<pvars, mvars, args_password, archive_files, idx, archive,
                   success, existing_data, raised, processed_count,
                   skipped_count, output_corrupt, handles, interrupted_at,
                   moves, parsed, wrote>>

\* m2.py's main has parsed its options, which always name an output file,
\* and the target is a directory.
InitM2 ==
    /\ fs \in Trees
    /\ args_password \in {"", "abc123"}
    /\ output_file = TRUE
    /\ output \in {<<>>, PriorOutput}
    /\ mpc = "m2_main"
    /\ passwords = <<>>
    /\ todo = <<>>
    /\ cur = 0
    /\ pw = 0
    /\ retry_count = 0
    /\ success_count = 0
    /\ rpc = "idle"
    /\ attempts = <<>>
    /\ archive_files = <<>>
    /\ idx = 0
    /\ archive = None
    /\ success = FALSE
    /\ existing_data = <<>>
    /\ raised = "None"
    /\ processed_count = 0
    /\ skipped_count = 0
    /\ exit_status = None
    /\ output_corrupt = FALSE
    /\ handles = {}
    /\ interrupted_at = "None"
    /\ summary = FALSE
    /\ moves = <<>>
    /\ parsed = "none"
    /\ wrote = "none"
    /\ PipelineIdle

NextM2 ==
    \/ M2Start
    \/ M2Open
    \/ M2Process
    \/ M2Dump
    \/ M2Close
    \/ M2Summary

SpecM2 == InitM2 /\ [][NextM2]_vars

-----------------------------------------------------------------------------
(* Claims about grouping *)

RECURSIVE Flatten(_)
Flatten(gs) == IF gs = <<>> THEN <<>> ELSE Head(gs) \o Flatten(Tail(gs))

\* The number of files consumed by the first g groups.
GroupEnd(g) == Len(Flatten(SubSeq(groups, 1, g)))

\* Group g is complete: process_system_dir has returned from it.
GroupClosed(g) == g < Len(groups) \/ pc \in {"archive", "done"}

\* C1: process_archive consumes the classified list as successive groups;
\* the groups, concatenated in processing order, are the classified list
\* (a prefix of it while the archive is being processed, all of it once
\* process_archive has finished normally), every group holds files of one
\* group key only, and every group is maximal: the file that follows a
\* finished group, if there is one, has another group key.
C1_GroupsAreMaximalRuns ==
    /\ Len(Flatten(groups)) <= Len(files)
    /\ Flatten(groups) = SubSeq(files, 1, Len(Flatten(groups)))
    /\ pc = "done" => Flatten(groups) = files
    /\ \A g \in 1..Len(groups) :
          /\ \A i \in 1..Len(groups[g]) :
                groups[g][i].system_dir = groups[g][1].system_dir
          /\ GroupClosed(g) =>
                /\ groups[g] # <<>>
                /\ GroupEnd(g) < Len(files) =>
                      files[GroupEnd(g) + 1].system_dir # groups[g][1].system_dir

\* An archive of two groups, one of them of two files, processed to the end.
C1_Witness ==
    /\ pc = "done"
    /\ Len(groups) = 2
    /\ Len(groups[1]) = 2
    /\ Len(groups[2]) = 1

\* C3: in the classified list all files with the same group key are
\* adjacent.
C3_EqualKeysAdjacent ==
    \A i \in 1..Len(files) : \A j \in (i + 1)..Len(files) :
        files[i].system_dir = files[j].system_dir =>
            \A k \in i..j : files[k].system_dir = files[i].system_dir

\* process_archive has ended: normally, on the RuntimeError it logs, or with
\* an exception.
Ended == pc \in {"done", "aborted", "raised"}

\* What process_archive has left to do: a natural number that is 0 when it
\* has ended.
Remaining ==
    IF Ended THEN 0
    ELSE IF pc = "start" THEN 3 * Cardinality(namelist) + 2
    ELSE IF pc = "archive" THEN 3 * (Len(files) - index) + 1
    ELSE 3 * (Len(files) - index) - count

\* C24: process_archive terminates.  Every call of process_system_dir that
\* returns has counted at least one file and at most the files that were
\* left, also when reads failed with a caught error, so the index strictly
\* increases and there are at most len(files) calls; every step of
\* process_archive takes it nearer to its end.
C24_ProcessArchiveTerminates ==
    [][/\ Remaining' < Remaining
       /\ Remaining' >= 0
       /\ (pc = "dir" /\ pc' = "archive") =>
             /\ 1 <= count
             /\ count <= Len(files) - index
             /\ index' = index + count
             /\ index' > index
             /\ Len(groups) <= Len(files)]_vars

\* process_archive has finished a list of three files in three calls of
\* process_system_dir, and a read failed with a caught error in the last.
C24_Witness ==
    /\ pc = "done"
    /\ Len(files) = 3
    /\ Len(groups) = 3
    /\ outcome \in CaughtErrors

-----------------------------------------------------------------------------
(* Claims about classification *)

SlashesOf(path) == {i \in 1..Len(path) : path[i] = "/"}

FirstSlash(path) == CHOOSE i \in SlashesOf(path) : \A j \in SlashesOf(path) : i <= j

SecondSlash(path) ==
    CHOOSE i \in SlashesOf(path) \ {FirstSlash(path)} :
        \A j \in SlashesOf(path) \ {FirstSlash(path)} : i <= j

\* The path has at least two separators and a non-empty second segment.
NestedTwoLevels(path) ==
    /\ Cardinality(SlashesOf(path)) >= 2
    /\ SecondSlash(path) > FirstSlash(path) + 1

FirstSegment(path) == SubSeq(path, 1, FirstSlash(path) - 1)

SecondSegment(path) == SubSeq(path, FirstSlash(path) + 1, SecondSlash(path) - 1)

HasKeyword(path, g) == \E i \in 1..Len(path) : KeywordGroup(path, i) = g

HasHash(path) == \E i \in 1..Len(path) : path[i] = "#"

EndsInTxt(path) == path # <<>> /\ Lower(path[Len(path)]) = ".txt"

\* The category the rules give a path when they are applied in priority
\* order, the first that matches deciding; "DROPPED" when none matches.
PriorityCategory(path) ==
    IF HasKeyword(path, 2) THEN "PASSWORDS"
    ELSE IF HasKeyword(path, 3) /\ ~HasHash(path) THEN "SYSTEM"
    ELSE IF HasKeyword(path, 4) THEN "IP"
    ELSE IF HasKeyword(path, 5) THEN "COPYRIGHT"
    ELSE "DROPPED"

\* The types under which a path is in the classified list.
TypesOf(path) == {files[k].type : k \in {m \in 1..Len(files) : files[m].filename = path}}

\* C5: the rules apply in priority order, first match wins: a .txt path that
\* holds "password" (not followed by "cracker") is Credentials whatever other
\* keywords it holds, a "#"-free one with a SystemInfo keyword and no
\* "password" is SystemInfo, and IPOnly beats FingerprintText.
C5_PriorityOrder ==
    pc = "archive" =>
        \A path \in namelist :
            EndsInTxt(path) /\ PriorityCategory(path) # "DROPPED"
                => TypesOf(path) = {PriorityCategory(path)}

\* C6: classification returns without raising, and every input entry is
\* either dropped or in the output exactly once, with one category.
C6_TotalAndSingleCategory ==
    pc # "start" =>
        /\ pc # "raised"
        /\ \A k \in 1..Len(files) :
              /\ files[k].filename \in namelist
              /\ files[k].type \in LogFileType
              /\ \A m \in 1..Len(files) : files[m].filename = files[k].filename => m = k

\* C7: an entry with a SystemInfo keyword and a "#" is never SystemInfo, and
\* the category it has, if it has one, is one its own path has the keyword of.
C7_CategoryFromOwnPath ==
    pc = "archive" =>
        \A k \in 1..Len(files) :
            LET path == files[k].filename
            IN  HasKeyword(path, 3) /\ HasHash(path) =>
                    /\ files[k].type # "SYSTEM"
                    /\ files[k].type = "PASSWORDS" => HasKeyword(path, 2)
                    /\ files[k].type = "IP" => HasKeyword(path, 4)
                    /\ files[k].type = "COPYRIGHT" => HasKeyword(path, 5)

\* C23: only entries whose path ends in ".txt" (in any case) are classified:
\* an entry such as password.txt.bak is never in the classified list.
C23_OnlyTxtClassified ==
    \A k \in 1..Len(files) : EndsInTxt(files[k].filename)

-----------------------------------------------------------------------------
(* Claims about parsing and retention *)

StoredIp(sd) == IF sd.system = None THEN "" ELSE Get(sd.system).ip_address

SystemIps == {discovered[i].ip : i \in {k \in 1..Len(discovered) : discovered[k].type = "SYSTEM"}}

IpOnlyIps == {discovered[i].ip : i \in {k \in 1..Len(discovered) : discovered[k].type = "IP"}}

ParsesSystem ==
    /\ pc = "dir"
    /\ count' = count + 1
    /\ outcome' = "ok"
    /\ AtFile.type = "SYSTEM"
    /\ ~Get(text').lexerr
    /\ parse_system(Get(text')) # None

\* C9: when a SystemInfo file is parsed in a group that holds a non-empty
\* IP, the fresh record replaces the stored one with its IP set to the stored
\* IP; when no IP is stored, the fresh record is stored as it is.
C9_FreshSystemKeepsEarlierIp ==
    [][ParsesSystem =>
          IF StoredIp(system_data) # ""
          THEN system_data'.system =
                  Some([Get(parse_system(Get(text'))) EXCEPT
                           !.ip_address = StoredIp(system_data)])
          ELSE system_data'.system = parse_system(Get(text'))]_pvars

\* A SystemInfo file with an IP of its own was parsed in a group that held
\* another IP, and brought a new attribute with it.
C9_Witness ==
    /\ pc = "dir"
    /\ outcome = "ok"
    /\ count >= 2
    /\ files[index + count].type = "SYSTEM"
    /\ Len(discovered) >= 2
    /\ discovered[Len(discovered)].type = "SYSTEM"
    /\ discovered[Len(discovered)].ip # discovered[1].ip
    /\ Get(text).system # None
    /\ Get(Get(text).system).computer_name = "PC"
    /\ Get(system_data.system).computer_name = "PC"

\* The claim's retention condition on the data of a group.
Retained(sd) ==
    \/ Len(sd.credentials) >= 1
    \/ /\ sd.system # None
       /\ \E a \in {Get(sd.system).ip_address, Get(sd.system).computer_name} : a # ""

\* C10: when a group has been processed its record is appended to the leak
\* if and only if the group has at least one credential entry or a system
\* record with a non-empty attribute; nothing else appends to the leak, and
\* no group appends more than one record.
C10_RetentionRule ==
    [][/\ (pc = "dir" /\ pc' = "archive") =>
             IF Retained(system_data)
             THEN Len(leak') = Len(leak) + 1 /\ SubSeq(leak', 1, Len(leak)) = leak
                  /\ leak'[Len(leak')].credentials = system_data.credentials
                  /\ leak'[Len(leak')].system = system_data.system
             ELSE leak' = leak
       /\ ~(pc = "dir" /\ pc' = "archive") => leak' = leak]_pvars

\* A retained group followed by a group whose only data is an all-empty
\* system record, which is dropped.
C10_Witness ==
    /\ pc = "archive"
    /\ Len(groups) = 2
    /\ Len(leak) = 1
    /\ system_data.system = Some(System("", ""))
    /\ system_data.credentials = <<>>

-----------------------------------------------------------------------------
(* Claims about the stealer name and the order of the records *)

\* The first family name matched in group g, "None" when none was.
FirstSignature(g) ==
    IF signatures[g] = <<>> THEN "None" ELSE signatures[g][1]

\* The last group has been processed and system_data is what it came to.
LastGroupFinished == pc \in {"archive", "done"} /\ groups # <<>>

\* C11: every record of the leak that carries a stealer name has at least
\* one credential entry; a group in which a file matched a family signature
\* and no credentials were parsed yields, when it is retained, a record
\* without stealer name.
C11_StealerNameNeedsCredentials ==
    /\ \A i \in 1..Len(leak) :
          leak[i].stealer_name # "None" => leak[i].credentials # <<>>
    /\ \A i \in 1..Len(leak) :
          FirstSignature(origin[i]) # "None" /\ leak[i].credentials = <<>>
              => leak[i].stealer_name = "None"
    /\ (/\ LastGroupFinished
        /\ FirstSignature(Len(groups)) # "None"
        /\ system_data.credentials = <<>>
        /\ ShouldAppend(system_data))
       => /\ origin # <<>>
          /\ origin[Len(origin)] = Len(groups)
          /\ leak[Len(leak)].stealer_name = "None"

\* A group in which a signature matched and no credentials were parsed has
\* been retained for its system record.
C11_Witness ==
    /\ LastGroupFinished
    /\ FirstSignature(Len(groups)) # "None"
    /\ system_data.credentials = <<>>
    /\ origin # <<>>
    /\ origin[Len(origin)] = Len(groups)
    /\ leak[Len(leak)].system # None

\* C12: within a group the stealer name is the first one matched in a text
\* that was read, a later match never replaces it, and the record of a group
\* carries no name but the first one matched in that same group.
C12_FirstMatchWins ==
    /\ groups # <<>> /\ pc # "archive" /\ pc # "done"
          => stealer_name = FirstSignature(Len(groups))
    /\ LastGroupFinished => stealer_name = FirstSignature(Len(groups))
    /\ \A i \in 1..Len(leak) :
          leak[i].stealer_name =
              IF leak[i].credentials # <<>> THEN FirstSignature(origin[i])
              ELSE "None"

\* Two groups with a record each: a match in the first group, which has no
\* credentials, and two different matches in the second, which has.
C12_Witness ==
    /\ pc = "done"
    /\ origin = <<1, 2>>
    /\ signatures[1] # <<>>
    /\ leak[1].stealer_name = "None"
    /\ Len(signatures[2]) = 2
    /\ signatures[2][1] # signatures[2][2]
    /\ signatures[2][1] # signatures[1][1]
    /\ leak[2].stealer_name = signatures[2][1]

\* C13: the records of a leak are in the order of the paths of the first
\* classified files of their groups; the classified list is in path order
\* whatever the order in which the archive lists its entries, so the same
\* entries give the same record order.
C13_RecordsInFirstFileOrder ==
    /\ Len(origin) = Len(leak)
    /\ \A i, j \in 1..Len(files) :
          i < j => StrLess(files[i].filename, files[j].filename)
    /\ \A i, j \in 1..Len(origin) :
          i < j => /\ origin[i] < origin[j]
                   /\ StrLess(groups[origin[i]][1].filename,
                              groups[origin[j]][1].filename)

\* Three groups, the second of which left no record.
C13_Witness ==
    /\ pc = "done"
    /\ Len(groups) = 3
    /\ origin = <<1, 3>>

\* C14: a failure to read or parse one file of a group skips only that
\* file: processing goes on with the other files of the group and with the
\* groups after it, so process_archive is never ended by the way the read of
\* an entry ended, and once it is over every classified file was processed.
C14_FileFailureIsIsolated ==
    /\ outcome \notin {"none", "ok"} => pc \notin {"aborted", "raised"}
    /\ (pc \in {"done", "aborted", "raised"} /\ groups # <<>>)
          => Flatten(groups) = files

-----------------------------------------------------------------------------
(* Claims about the password retry *)

\* The calls of process_single_archive made for the i-th archive of the
\* failure bucket.
AttemptsOn(i) ==
    LET on(a) == a.path = todo[i] IN SelectSeq(attempts, on)

\* The positions of the candidates that open the archive.
CorrectCandidates(arc) ==
    {k \in 1..Len(passwords) : arc.password = "" \/ arc.password = passwords[k]}

FirstCorrect(arc) ==
    CHOOSE k \in CorrectCandidates(arc) : \A j \in CorrectCandidates(arc) : k <= j

\* C2: an archive of the failure bucket that yields records, with an output
\* file to write them to and no write error, whose first correct candidate
\* is at position k, is processed successfully on the k-th attempt, and no
\* candidate after position k is tried for it.
C2_RetrySucceedsAtFirstCorrect ==
    rpc = "returned" /\ output_file =>
        \A i \in 1..Len(todo) :
            LET tries == AttemptsOn(i)
                arc == tries[1].arc
            IN  (/\ tries # <<>>
                 /\ arc.records > 0
                 /\ CorrectCandidates(arc) # {}
                 /\ \A j \in 1..Len(tries) : tries[j].write # "RuntimeError")
                => /\ Len(tries) = FirstCorrect(arc)
                   /\ tries[Len(tries)].success

-----------------------------------------------------------------------------
(* Claims about the batch: buckets, output file, signals, handles *)

\* The positions i of moves whose destination is in the directory dir.
MovesInto(dir) == {i \in 1..Len(moves) : moves[i].dest.dir = dir}

\* C15: in directory mode no failure of an archive aborts the batch: when
\* process_directory returns, every discovered archive has been attempted
\* once, in the order of discovery, and moved to a bucket, the failed ones to
\* processed_failed; the two counts add up to the number of archives
\* discovered; and unless a signal arrives the process does not end before
\* that, once the archives are discovered.
C15_DirectoryNeverAborts ==
    /\ mpc = "directory_done" =>
          /\ processed_count + skipped_count = Len(archive_files)
          /\ Len(moves) = Len(archive_files)
          /\ \A i \in 1..Len(moves) :
                /\ moves[i].path = archive_files[i]
                /\ moves[i].dest.dir \in {SuccessDir, FailedDir}
                /\ Exists(fs, moves[i].dest)
          /\ Cardinality(MovesInto(SuccessDir)) = processed_count
          /\ Cardinality(MovesInto(FailedDir)) = skipped_count
    /\ (mpc \in {"propagate", "exited"} /\ archive_files # <<>> /\ interrupted_at = "None")
          => summary

\* process_directory has returned from two archives, the first of which
\* failed and the second of which succeeded.
C15_Witness ==
    /\ mpc = "directory_done"
    /\ Len(archive_files) = 2
    /\ moves[1].dest.dir = FailedDir
    /\ moves[2].dest.dir = SuccessDir
    /\ skipped_count = 1
    /\ processed_count = 1

\* C16: a successful update_json_file writes the array the file held
\* followed by the records of the new leak, in order: what it will write is
\* the prior array extended, and what the file holds after the write is that.
C16_UpdateAppendsOnly ==
    [][/\ (mpc = "write" /\ mpc' = "writing") =>
             /\ existing_data' = output \o leak
             /\ SubSeq(existing_data', 1, Len(output)) = output
       /\ (mpc = "writing" /\ mpc' = "written") =>
             /\ output' = existing_data
             /\ ~output_corrupt']_vars

\* The output file held the record of an earlier run and two archives have
\* added theirs.
C16_Witness ==
    /\ mpc = "written"
    /\ Len(output) = 5
    /\ output[1] = PriorOutput[1]
    /\ output[2].filename # output[4].filename
    /\ output[2].record = 1
    /\ output[3].record = 2

\* The archive paths that have records in the output file.
HasRecords(p) == \E i \in 1..Len(output) : output[i].filename = p

MovedTo(p, dir) ==
    \E i \in 1..Len(moves) : moves[i].path = p /\ moves[i].dest.dir = dir

\* C17: when the process stops on a signal no archive is half-finalized: a
\* signal that arrives while the output file is being written leaves no
\* partial write, and the records of an archive are in the output file if
\* and only if the archive was moved to the success bucket.
C17_InterruptLeavesNoHalfFinalized ==
    (mpc = "exited" /\ interrupted_at # "None") =>
        /\ interrupted_at = "writing" => ~output_corrupt
        /\ ~output_corrupt =>
              \A i \in 1..Len(archive_files) :
                  HasRecords(archive_files[i])
                      <=> MovedTo(archive_files[i], SuccessDir)

\* An archive of the directory is being processed.
InFlight == idx \in 1..Len(archive_files)

\* C18: a process that a signal stopped while an archive was being processed
\* has a non-zero exit status, and the exit status is zero only when the
\* summary was emitted.
C18_InterruptExitsNonZero ==
    /\ (mpc = "exited" /\ interrupted_at # "None" /\ InFlight) => exit_status # Some(0)
    /\ exit_status = Some(0) => summary

\* C19: at most one archive handle is open at any time; a handle is opened
\* only when none is open, and no file is moved while one is open: the handle
\* of an archive is closed, also when the processing raised, before the
\* archive is moved and before the next one is opened.
C19_OneHandleClosedBeforeMove ==
    [][/\ Cardinality(handles') <= 1
       /\ handles' \ handles # {} => handles = {}
       /\ fs' # fs => handles = {}]_vars

\* The second archive of the directory was opened and failed, and is about
\* to be moved with its handle closed.
C19_Witness ==
    /\ mpc = "move"
    /\ idx = 2
    /\ archive # None
    /\ ~success
    /\ handles = {}

\* The counter move_file appends to the name f.name in the directory dir, 0
\* when the name is free there.
FirstFree(fsys, name, dir) ==
    IF ~Exists(fsys, Path(dir, name)) THEN 0
    ELSE CHOOSE c \in 1..(Cardinality(fsys) + 1) :
            /\ ~Exists(fsys, Path(dir, Append(name, c)))
            /\ \A d \in 1..(c - 1) : Exists(fsys, Path(dir, Append(name, d)))

\* C20: a move never overwrites: the file that is moved goes to a bucket
\* under its own name when that path is free, else under the first free name
\* among stem_1, stem_2, ...; it is no longer at its source, and every other
\* file is where and what it was.
C20_MoveNeverOverwrites ==
    [][fs' # fs =>
          \E f \in fs : \E g \in fs' \ fs :
              /\ fs' = (fs \ {f}) \cup {g}
              /\ Cardinality(fs') = Cardinality(fs)
              /\ g.arc = f.arc
              /\ g.dir \in {SuccessDir, FailedDir}
              /\ ~Exists(fs' \ {g}, Path(g.dir, g.name))
              /\ g.name = IF FirstFree(fs, f.name, g.dir) = 0 THEN f.name
                          ELSE Append(f.name, FirstFree(fs, f.name, g.dir))]_vars

\* A file was moved under a name with the counter 2, the names without
\* counter and with the counter 1 being taken.
C20_Witness ==
    \E i \in 1..Len(moves) :
        /\ moves[i].dest.name = Append(moves[i].path.name, 2)
        /\ Exists(fs, moves[i].dest)

-----------------------------------------------------------------------------
(* Claims about the order and the outcome of the batch *)

\* C21: process_directory processes the archives in path-sorted order: of
\* two archives it has started on, the one processed first has the smaller
\* path, in whatever order the file system lists the directory.
C21_ProcessedInPathOrder ==
    mpc \notin {"idle", "main"} =>
        \A i, j \in 1..Len(archive_files) :
            i < j /\ j <= idx => PathLess(archive_files[i], archive_files[j])

\* The finally block of process_single_archive is about to move the archive
\* and nothing is propagating: the call will return.
Returning == mpc = "move" /\ raised = "None"

\* The step moves a file into the directory.
MovesFileInto(dir) == \E f \in fs' \ fs : f.dir = dir

\* C22: an archive whose pipeline parsed without error and whose output
\* write failed still counts as parsed: process_single_archive does not
\* return False for it, it is not counted as skipped and it is not put into
\* the failure bucket.
C22_WriteFailureStillParsed ==
    [][(Returning /\ parsed = "clean" /\ wrote = "failed") =>
          /\ success
          /\ skipped_count' = skipped_count
          /\ ~MovesFileInto(FailedDir)]_vars

\* C27: an archive that was opened and parsed without any error is finalized
\* as success, with or without records and with or without an output file:
\* process_single_archive returns True and moves it to processed_success.
C27_CleanParseIsSuccess ==
    [][(Returning /\ parsed = "clean" /\ wrote # "failed") =>
          /\ success
          /\ processed_count' = processed_count + 1
          /\ MovesFileInto(SuccessDir)]_vars

\* C28: an archive whose processing stopped early at a RuntimeError is not
\* reported as processed: process_single_archive does not return True, the
\* archive is not moved to the success bucket and none of its records is in
\* the output.
C28_StoppedParseIsNotSuccess ==
    [][(Returning /\ parsed = "stopped") =>
          /\ ~success
          /\ ~MovesFileInto(SuccessDir)
          /\ \A k \in 1..Len(output) : output[k].filename # filepath]_vars

\* C26: a run on a directory does not rediscover what an earlier run has put
\* into the buckets: the scan of process_directory lists no archive of
\* processed_success or processed_failed, and process_directory processes
\* none.
C26_BucketsAreNotRescanned ==
    /\ \A i \in 1..Len(archive_files) :
          archive_files[i].dir \notin {SuccessDir, FailedDir}
    /\ mpc \in TryBody \cup {"close", "move"} =>
          filepath.dir \notin {SuccessDir, FailedDir}

\* C25: in a batch of m2.py with its shared output file, once the batch is
\* complete the output file holds the records of every archive that was
\* processed successfully and whose dump was written: what was written for
\* an earlier archive is still there after a later one was written.
C25_SharedOutputKeepsAllRecords ==
    (mpc = "m2_exited" /\ summary) =>
        \A i \in 1..Len(attempts) :
            (attempts[i].success /\ attempts[i].wrote = "ok") =>
                \A k \in 1..Len(attempts[i].records) :
                    \E j \in 1..Len(output) : output[j] = attempts[i].records[k]


=============================================================================
